---- MODULE Spec2Model ----
(***************************************************************************)
(* Model of scripts/lookup_table_generator.py: the byte classifiers of the *)
(* SIP grammar (RFC 3261), the table emitter generate_lookup_table and the *)
(* driver main.  Standard output is the sequence of the pieces the print   *)
(* calls write, in order.                                                  *)
(***************************************************************************)
EXTENDS Integers, Sequences, FiniteSets

(***************************************************************************)
(* Bounds of the model.                                                    *)
(***************************************************************************)
\* longest request (argument list) given to main
MaxArgs == 2
\* direct calls of generate_lookup_table use every n in -MaxNeg .. MaxN ...
MaxNeg == 2
MaxN == 50
\* ... and the sizes DefaultN - 1 .. DefaultN + MaxOver around the byte domain
MaxOver == 2
\* row widths 0 .. MaxAlign, and the default
MaxAlign == 3

(***************************************************************************)
(* Program constants.                                                      *)
(***************************************************************************)
\* def generate_lookup_table(name, func, n=256, align=16)
DefaultN == 256
DefaultAlign == 16
\* a bytes object holds values in range(0, 256)
ByteLimit == 256

(***************************************************************************)
(* Values.  A classifier call either returns a boolean or raises           *)
(* ValueError (membership of an int outside range(0, 256) in bytes).       *)
(***************************************************************************)
Returns(v) == [raised |-> FALSE, val |-> v]
Raises == [raised |-> TRUE, val |-> FALSE]

\* Python's "x or y": y is evaluated only when x is false; an exception
\* raised by x propagates.
Or(x, y) == IF x.raised \/ x.val THEN x ELSE y

\* Python's "b in s" for an int b and a bytes object s.
bytes_contains_total(b, s) == Returns(\E k \in 1..Len(s) : s[k] = b)
bytes_contains(b, s) ==
    IF 0 <= b /\ b < ByteLimit
    THEN Returns(\E k \in 1..Len(s) : s[k] = b)
    ELSE Raises

\* ord(b'a') <= b <= ord(b'z'): a chained comparison of ints, never raises
between(lo, b, hi) == Returns(lo <= b /\ b <= hi)

(***************************************************************************)
(* The classifiers.                                                        *)
(***************************************************************************)
\* 'a'..'z', 'A'..'Z', '0'..'9'
is_alphanum(b) ==
    Or(between(97, b, 122), Or(between(65, b, 90), between(48, b, 57)))

\* b"!%'*+-._`~"
TOKEN_BYTES == <<33, 37, 39, 42, 43, 45, 46, 95, 96, 126>>
\* b"!$%&'()*+,-./:;=?@_~"
URI_BYTES == <<33, 36, 37, 38, 39, 40, 41, 42, 43, 44, 45, 46, 47,
               58, 59, 61, 63, 64, 95, 126>>

is_token_no_backquote(b) ==
    Or(is_alphanum(b),
       bytes_contains(b, <<33, 37, 39, 42, 43, 45, 46, 95, 126>>))
is_token(b) ==
    Or(is_alphanum(b), bytes_contains(b, TOKEN_BYTES))

is_request_uri_as_token(b) ==
    Or(is_alphanum(b), bytes_contains(b, TOKEN_BYTES))
is_request_uri(b) ==
    Or(is_alphanum(b), bytes_contains(b, URI_BYTES))

\* b"\xff", b" \t"
is_reason_phrase_utf8(b) ==
    Or(is_alphanum(b),
       Or(bytes_contains(b, URI_BYTES),
          Or(between(128, b, 255),
             bytes_contains(b, <<32, 9>>))))
is_reason_phrase(b) ==
    Or(is_alphanum(b),
       Or(bytes_contains(b, URI_BYTES),
          Or(bytes_contains(b, <<255>>),
             bytes_contains(b, <<32, 9>>))))

\* %xC0-DF / %xE0-EF / %xF0-F7 / %xF8-FB / %xFC-FD
is_UTF8_NONASCII(b) ==
    Or(between(192, b, 223),
       Or(between(224, b, 239),
          Or(between(240, b, 247),
             Or(between(248, b, 251), between(252, b, 253)))))

\* %x21-7E / UTF8-NONASCII
is_TEXT_UTF8char(b) ==
    Or(between(33, b, 126), is_UTF8_NONASCII(b))

\* %x80-BF
is_UTF8_CONT(b) == between(128, b, 191)

\* b'\x20\x09\r\n'
is_LWS(b) == bytes_contains(b, <<32, 9, 13, 10>>)

\* b'\x00\x07\x7F'
is_header_value_strict(b) ==
    Or(is_TEXT_UTF8char(b), Or(is_UTF8_CONT(b), is_LWS(b)))
is_header_value(b) ==
    Or(is_TEXT_UTF8char(b),
       Or(is_UTF8_CONT(b),
          Or(is_LWS(b), bytes_contains(b, <<0, 7, 127>>))))

\* a function object is modelled by its name
Apply(f, b) ==
    CASE f = "is_token" -> is_token(b)
      [] f = "is_request_uri" -> is_request_uri(b)
      [] f = "is_reason_phrase" -> is_reason_phrase(b)
      [] f = "is_header_value" -> is_header_value(b)

GENERATORS_swapped ==
    [TOKEN_MAP |-> "is_token",
     REQUEST_URI_MAP |-> "is_reason_phrase",
     REASON_PHRASE_MAP |-> "is_request_uri",
     HEADER_VALUE_MAP |-> "is_header_value"]
GENERATORS ==
    [TOKEN_MAP |-> "is_token",
     REQUEST_URI_MAP |-> "is_request_uri",
     REASON_PHRASE_MAP |-> "is_reason_phrase",
     HEADER_VALUE_MAP |-> "is_header_value"]

(***************************************************************************)
(* Output pieces.                                                          *)
(***************************************************************************)
Piece(t, nm, v) == [tok |-> t, name |-> nm, val |-> v]

\* 'static {}: [bool; {}] = byte_map!['.format(name, n)
FIRST_LINE(nm, n) == Piece("static", nm, n)
\* '\n   '
ROW_START == Piece("row", "", 0)
\* ' {},'.format(1 if v else 0)
ENTRY(v) == Piece("entry", "", IF v THEN 1 ELSE 0)
\* print('\n' + LAST_LINE + '\n'): the closing line, then the empty line
\* left by print's own newline
CLOSING == <<Piece("];", "", 0), Piece("blank", "", 0)>>

\* for i in range(n): is there a next i
in_range_short(i, n) == i < n - 1
in_range(i, n) == i < n

\* i % align == 0 (align > 0; align = 0 raises ZeroDivisionError)
starts_row_after(i, align) == i % align = align - 1
starts_row(i, align) == i % align = 0

(***************************************************************************)
(* State.                                                                  *)
(***************************************************************************)
VARIABLES
    entry,   \* the function called from outside: "main" or "generate_lookup_table"
    args,    \* main's argument list
    argi,    \* number of arguments main's loop has finished
    pc,      \* position of the program
    name,    \* generate_lookup_table's parameters: name, func, n, align
    func,
    n,       \* [int |-> isinstance(n, int), val |-> its value (whole part)]
    align,
    i,       \* next value of range(n)
    out,     \* what has been written to standard output
    err      \* the exception that ended the program, "" when none

vars == <<entry, args, argi, pc, name, func, n, align, i, out, err>>

Names == DOMAIN GENERATORS
RequestNames == Names \cup {"BOGUS_MAP"}
Requests == UNION {[1..k -> RequestNames] : k \in 0..MaxArgs}

IntSizes == ((0 - MaxNeg)..MaxN) \cup ((DefaultN - 1)..(DefaultN + MaxOver))
Sizes == {[int |-> TRUE, val |-> v] : v \in IntSizes}
            \cup {[int |-> FALSE, val |-> v] : v \in {0, DefaultN}}
Aligns == (0..MaxAlign) \cup {DefaultAlign}

InitMain ==
    /\ entry = "main"
    /\ args \in Requests
    /\ argi = 0
    /\ pc = "main_for"
    /\ name = ""
    /\ func = ""
    /\ n = [int |-> TRUE, val |-> DefaultN]
    /\ align = DefaultAlign
    /\ i = 0
    /\ out = <<>>
    /\ err = ""

InitGenerate ==
    /\ entry = "generate_lookup_table"
    /\ args = <<>>
    /\ argi = 0
    /\ pc = "gen_assert"
    /\ name \in Names
    /\ func = GENERATORS[name]
    /\ n \in Sizes
    /\ align \in Aligns
    /\ i = 0
    /\ out = <<>>
    /\ err = ""

Init == InitMain \/ InitGenerate

(***************************************************************************)
(* main                                                                    *)
(***************************************************************************)
\* func = GENERATORS[arg] with arg not a key: KeyError
MainKeyError ==
    /\ pc = "main_for"
    /\ argi < Len(args)
    /\ args[argi + 1] \notin DOMAIN GENERATORS
    /\ pc' = "raised"
    /\ err' = "KeyError"
    /\ UNCHANGED <<entry, args, argi, name, func, n, align, i, out>>

\* func = GENERATORS[arg]; generate_lookup_table(arg, func)
MainCall ==
    /\ pc = "main_for"
    /\ argi < Len(args)
    /\ args[argi + 1] \in DOMAIN GENERATORS
    /\ name' = args[argi + 1]
    /\ func' = GENERATORS[args[argi + 1]]
    /\ n' = [int |-> TRUE, val |-> DefaultN]
    /\ align' = DefaultAlign
    /\ pc' = "gen_assert"
    /\ UNCHANGED <<entry, args, argi, i, out, err>>

\* the for loop of main is exhausted
MainReturn ==
    /\ pc = "main_for"
    /\ argi >= Len(args)
    /\ pc' = "done"
    /\ UNCHANGED <<entry, args, argi, name, func, n, align, i, out, err>>

(***************************************************************************)
(* generate_lookup_table                                                   *)
(***************************************************************************)
\* assert(isinstance(n, int)) fails
GenAssertFail ==
    /\ pc = "gen_assert"
    /\ ~n.int
    /\ pc' = "raised"
    /\ err' = "AssertionError"
    /\ UNCHANGED <<entry, args, argi, name, func, n, align, i, out>>

\* the assert passes; print(FIRST_LINE, end=''); the loop starts
GenFirstLine ==
    /\ pc = "gen_assert"
    /\ n.int
    /\ out' = Append(out, FIRST_LINE(name, n.val))
    /\ i' = 0
    /\ pc' = "gen_for"
    /\ UNCHANGED <<entry, args, argi, name, func, n, align, err>>

\* one iteration with align = 0: i % align raises ZeroDivisionError
GenZeroDivision ==
    /\ pc = "gen_for"
    /\ in_range(i, n.val)
    /\ align = 0
    /\ pc' = "raised"
    /\ err' = "ZeroDivisionError"
    /\ UNCHANGED <<entry, args, argi, name, func, n, align, i, out>>

\* what one iteration has written when func(i) is called
BeforeEntry == IF starts_row(i, align) THEN Append(out, ROW_START) ELSE out

\* one iteration in which func(i) raises
GenValueError ==
    /\ pc = "gen_for"
    /\ in_range(i, n.val)
    /\ align > 0
    /\ Apply(func, i).raised
    /\ out' = BeforeEntry
    /\ pc' = "raised"
    /\ err' = "ValueError"
    /\ UNCHANGED <<entry, args, argi, name, func, n, align, i>>

\* one iteration: the row start when i % align == 0, then the entry
GenIteration ==
    /\ pc = "gen_for"
    /\ in_range(i, n.val)
    /\ align > 0
    /\ ~Apply(func, i).raised
    /\ out' = Append(BeforeEntry, ENTRY(Apply(func, i).val))
    /\ i' = i + 1
    /\ UNCHANGED <<entry, args, argi, pc, name, func, n, align, err>>

\* range(n) is exhausted: print('\n' + LAST_LINE + '\n') and return,
\* to main's loop or to the outside caller
GenReturn ==
    /\ pc = "gen_for"
    /\ ~in_range(i, n.val)
    /\ out' = out \o CLOSING
    /\ pc' = IF entry = "main" THEN "main_for" ELSE "done"
    /\ argi' = IF entry = "main" THEN argi + 1 ELSE argi
    /\ UNCHANGED <<entry, args, name, func, n, align, i, err>>

Next ==
    \/ MainKeyError
    \/ MainCall
    \/ MainReturn
    \/ GenAssertFail
    \/ GenFirstLine
    \/ GenZeroDivision
    \/ GenValueError
    \/ GenIteration
    \/ GenReturn

Spec == Init /\ [][Next]_vars

TypeOK ==
    /\ entry \in {"main", "generate_lookup_table"}
    /\ pc \in {"main_for", "gen_assert", "gen_for", "done", "raised"}
    /\ err \in {"", "KeyError", "AssertionError", "ZeroDivisionError", "ValueError"}
    /\ (pc = "raised") = (err # "")
    /\ argi \in 0..Len(args)
    /\ i >= 0

(***************************************************************************)
(* Properties.                                                             *)
(***************************************************************************)
DirectCall == entry = "generate_lookup_table"
Bit(v) == IF v THEN 1 ELSE 0

\* the byte classes as the grammar tables give them
Alpha == (65..90) \cup (97..122)
Digit == 48..57
\* ! % ' * + - . _ ` ~
TokenMarks == {33, 37, 39, 42, 43, 45, 46, 95, 96, 126}
\* ! $ % & ' ( ) * + , - . / : ; = ? @ _ ~
UriMarks == {33, 36, 37, 38, 39, 40, 41, 42, 43, 44, 45, 46, 47,
             58, 59, 61, 63, 64, 95, 126}
TokenSet == Alpha \cup Digit \cup TokenMarks
RequestUriSet == Alpha \cup Digit \cup UriMarks
ReasonPhraseSet == Alpha \cup Digit \cup UriMarks \cup {255, 32, 9}
HeaderValueSet == {0, 7, 9, 10, 13, 32, 127} \cup (33..126) \cup (128..253)
HeaderValueRejected == (1..6) \cup {8, 11, 12} \cup (14..31) \cup {254, 255}

\* the loop has just written the entry of index i - 1, computed by f
Classified(f) == func = f /\ pc = "gen_for" /\ i > 0
LastPiece == out[Len(out)]
\* the last piece written is the entry of a byte that is in S exactly when
\* it is in 0..255 and the class S holds it
LastEntryIs(S) ==
    /\ i - 1 \in 0..255
    /\ LastPiece.tok = "entry"
    /\ LastPiece.val = Bit((i - 1) \in S)

\* C3: for every byte b in 0..255 is_token(b) is true exactly for the ASCII
\* letters, the digits and the ten bytes ! % ' * + - . _ ` ~; in particular
\* 'A' (65) and '-' (45) give 1 and ' ' (32) gives 0.
C3_TokenMap ==
    Classified("is_token") =>
        /\ LastEntryIs(TokenSet)
        /\ (i - 1 \in {65, 45} => LastPiece.val = 1)
        /\ (i - 1 = 32 => LastPiece.val = 0)
C3_Witness ==
    /\ Classified("is_token")
    /\ i = ByteLimit
    /\ \E k \in 1..Len(out) : out[k].tok = "entry" /\ out[k].val = 1

\* C4: for every byte b in 0..255 is_header_value(b) is true for 0x00, 0x07,
\* 0x09, 0x0A, 0x0D, 0x20, 0x7F, for 0x21..0x7E and for 0x80..0xFD, and
\* false for every other byte: 0x01-0x06, 0x08, 0x0B, 0x0C, 0x0E-0x1F, 0xFE,
\* 0xFF.
C4_HeaderValueMap ==
    Classified("is_header_value") =>
        /\ LastEntryIs(HeaderValueSet)
        /\ (LastPiece.val = 0) = (i - 1 \in HeaderValueRejected)
C4_Witness ==
    /\ Classified("is_header_value")
    /\ i = ByteLimit
    /\ LastPiece.val = 0

C6_RequestUriMap ==
    Classified("is_request_uri") => LastEntryIs(RequestUriSet)
C6_Witness ==
    /\ Classified("is_request_uri")
    /\ i = ByteLimit
    /\ \E k \in 1..Len(out) : out[k].tok = "entry" /\ out[k].val = 1

\* the entries of an output, in the order written
IsEntry(p) == p.tok = "entry"
Flatten(s) == SelectSeq(s, IsEntry)

\* a direct call with a size in 1..256 and a row width of at least 1 has
\* returned
Emitted ==
    /\ DirectCall
    /\ pc = "done"
    /\ n.val \in 1..256
    /\ align >= 1

\* C7: for every registered classifier f, every N in 1..256 and every row
\* width W >= 1, the call emits a declaration of declared length N whose
\* entries, flattened in the order written, are exactly N values, the i-th
\* (i = 0..N-1) being 1 if f(i) is true and 0 otherwise.
C7_Complete ==
    Emitted =>
        /\ out[1] = [tok |-> "static", name |-> name, val |-> n.val]
        /\ \A k \in 2..Len(out) : out[k].tok # "static"
        /\ Len(Flatten(out)) = n.val
        /\ \A k \in 1..n.val :
              Flatten(out)[k].val = Bit(Apply(func, k - 1).val)
C7_Witness == Emitted /\ n.val > align /\ align > 1

\* the rows of an emitted table: what lies between the declaration's first
\* line and its closing
Body == SubSeq(out, 2, Len(out) - 2)
RowStarts == {p \in 1..Len(Body) : Body[p].tok = "row"}
Ceil(a, b) == (a + b - 1) \div b
NextRowStart(p) ==
    IF \E q \in RowStarts : q > p
    THEN CHOOSE q \in RowStarts : q > p /\ \A r \in RowStarts : r > p => q <= r
    ELSE Len(Body) + 1
RowLen(p) == NextRowStart(p) - p - 1
\* the index of the entry at position q of the body
EntryIndex(q) == Cardinality({r \in 1..(q - 1) : Body[r].tok = "entry"})

\* C8: for every row width W >= 1 and every N in 1..256 the entries are
\* split into exactly ceil(N / W) rows; every row but the last holds W
\* entries, the last holds N - W * (ceil(N / W) - 1) entries (between 1 and
\* W), and a row is started exactly before the entries whose index is a
\* multiple of W.
C8_RowGrouping ==
    Emitted =>
        LET rows == Ceil(n.val, align)
            last == n.val - align * (rows - 1)
        IN  /\ \A p \in 1..Len(Body) : Body[p].tok \in {"row", "entry"}
            /\ Cardinality(RowStarts) = rows
            /\ 1 \in RowStarts
            /\ last \in 1..align
            /\ \A p \in RowStarts :
                  RowLen(p) = IF NextRowStart(p) > Len(Body) THEN last ELSE align
            /\ \A q \in 2..Len(Body) :
                  Body[q].tok = "entry" =>
                      ((Body[q - 1].tok = "row") = (EntryIndex(q) % align = 0))
C8_Witness ==
    /\ Emitted
    /\ align > 1
    /\ n.val > 2 * align
    /\ n.val % align # 0

\* the class the grammar gives each table name
ClassOf(nm) ==
    CASE nm = "TOKEN_MAP" -> TokenSet
      [] nm = "REQUEST_URI_MAP" -> RequestUriSet
      [] nm = "REASON_PHRASE_MAP" -> ReasonPhraseSet
      [] nm = "HEADER_VALUE_MAP" -> HeaderValueSet
\* the pieces of a complete default table (256 entries in rows of 16)
TableRows == DefaultN \div DefaultAlign
TableLen == 1 + DefaultN + TableRows + 2
ExpectedPiece(nm, p) ==
    LET q == p - 2
    IN  IF p = 1 THEN [tok |-> "static", name |-> nm, val |-> DefaultN]
        ELSE IF p = TableLen - 1 THEN [tok |-> "];", name |-> "", val |-> 0]
        ELSE IF p = TableLen THEN [tok |-> "blank", name |-> "", val |-> 0]
        ELSE IF q % (DefaultAlign + 1) = 0
             THEN [tok |-> "row", name |-> "", val |-> 0]
        ELSE [tok |-> "entry", name |-> "",
              val |-> Bit(((q \div (DefaultAlign + 1)) * DefaultAlign
                             + (q % (DefaultAlign + 1)) - 1) \in ClassOf(nm))]
Registered == entry = "main" /\ \A k \in 1..Len(args) : args[k] \in Names

\* C9: for a request of registered names only (any length, any order,
\* repetitions allowed) main emits exactly one complete table per requested
\* name, in the order requested: the k-th declaration is named after the k-th
\* name and holds that classifier's 256 entries, each declaration is closed
\* and followed by a blank line before the next one starts, and no other
\* table is emitted.
C9_TablesInOrder ==
    Registered =>
        /\ pc # "raised"
        /\ Len(out) <= Len(args) * TableLen
        /\ (pc = "main_for" => Len(out) = argi * TableLen)
        /\ (pc = "done" =>
              /\ Len(out) = Len(args) * TableLen
              /\ \A p \in 1..Len(out) :
                    out[p] = ExpectedPiece(args[((p - 1) \div TableLen) + 1],
                                           ((p - 1) % TableLen) + 1))
C9_Witness ==
    /\ Registered
    /\ pc = "done"
    /\ Len(args) = 2
    /\ args[1] # args[2]

\* C1 (as claimed): a request either emits every table or fails with nothing
\* written; a request holding an unregistered name at any position emits
\* nothing.
C1_Atomic ==
    entry = "main" =>
        /\ (pc = "raised" => out = <<>>)
        /\ ((\E k \in 1..Len(args) : args[k] \notin Names) => out = <<>>)

\* C2 (as claimed): a call with an invalid size (N <= 0, or N not an integer)
\* is rejected with an error before anything is written: no declaration, not
\* even one of length 0, is emitted.
C2_InvalidSizeRejected ==
    (DirectCall /\ (~n.int \/ n.val <= 0)) =>
        /\ out = <<>>
        /\ pc # "done"

\* a direct call with a positive integer size and a row width of at least 1
PositiveCall == DirectCall /\ n.int /\ n.val >= 1 /\ align >= 1

====
